---- MODULE Spec2Model ----
(***************************************************************************)
(* Model of src/lib.rs: the stringable_enum! macro, the two enumerations   *)
(* it is applied to (Color, LogLevelSerdable), the two enumerations of its *)
(* doctest, and Color::detect.                                             *)
(*                                                                         *)
(* A string is a sequence of one-character strings, so that equality of    *)
(* strings is equality of their bytes and case and white space are seen.   *)
(***************************************************************************)
EXTENDS Integers, Sequences, FiniteSets, TLC

VARIABLES decl, mode, table, pc, gen, threads, strs, fmts, call, ret

vars == <<decl, mode, table, pc, gen, threads, strs, fmts, call, ret>>

(***************************************************************************)
(* Bounds of the model.                                                    *)
(***************************************************************************)
MaxEntries == 3
NumThreads == 2
MaxWidth == 6
MaxPrecision == 2

(***************************************************************************)
(* Helpers on sequences.                                                   *)
(***************************************************************************)
Min(S) == CHOOSE x \in S : \A y \in S : x <= y

Repeat(c, n) == [i \in 1..n |-> c]

Take(q, n) == IF n >= Len(q) THEN q ELSE SubSeq(q, 1, n)

(***************************************************************************)
(* The enumerations declared in the source, by name and variant set.       *)
(***************************************************************************)
ColorEnum == [name |-> "Color", variants |-> {"Always", "Auto", "Never"}]

LogLevelSerdableEnum ==
    [name |-> "LogLevelSerdable",
     variants |-> {"Trace", "Debug", "Info", "Warn", "Error"}]

MyEnum == [name |-> "MyEnum", variants |-> {"Foo", "Bar"}]

NoDisplayEnum ==
    [name |-> "NoDisplayEnum", variants |-> {"Baz", "Quux", "OtherGibberish"}]

(***************************************************************************)
(* The binding tables written in the source: sequences of                  *)
(* $variant = $strval entries, in the order written.                       *)
(***************************************************************************)
Entry(v, s) == [variant |-> v, strval |-> s]

ColorTable ==
    << Entry("Always", <<"a","l","w","a","y","s">>),
       Entry("Auto",   <<"a","u","t","o">>),
       Entry("Never",  <<"n","e","v","e","r">>) >>

LogLevelSerdableTable ==
    << Entry("Trace", <<"t","r","a","c","e">>),
       Entry("Debug", <<"d","e","b","u","g">>),
       Entry("Info",  <<"i","n","f","o">>),
       Entry("Warn",  <<"w","a","r","n">>),
       Entry("Error", <<"e","r","r","o","r">>) >>

MyEnumTable ==
    << Entry("Foo", <<"f","o","o">>),
       Entry("Bar", <<"b","a","r">>) >>

NoDisplayEnumTable ==
    << Entry("Baz",  <<"b","a","z">>),
       Entry("Quux", <<"q","u","u","x">>),
       Entry("OtherGibberish",
             <<"o","t","h","e","r","-","g","i","b","b","e","r","i","s","h">>) >>

ShippedInvocations ==
    { [decl |-> ColorEnum,            mode |-> "with-display", table |-> ColorTable],
      [decl |-> LogLevelSerdableEnum, mode |-> "with-display", table |-> LogLevelSerdableTable],
      [decl |-> MyEnum,               mode |-> "with-display", table |-> MyEnumTable],
      [decl |-> NoDisplayEnum,        mode |-> "no-display",   table |-> NoDisplayEnumTable] }

(***************************************************************************)
(* Any other invocation of the macro: an enumeration over a small set of   *)
(* variant names, either arm of the macro, and any table of one to         *)
(* MaxEntries entries over those names and a small set of string literals  *)
(* (two of them differ only in case).                                      *)
(***************************************************************************)
GenVariants == {"A", "B"}

GenTokens == { <<"x">>, <<"X">> }

Modes == {"with-display", "no-display"}

GenTables ==
    UNION { [1..n -> [variant : GenVariants, strval : GenTokens]] : n \in 1..MaxEntries }

GenInvocations ==
    { [decl |-> [name |-> "E", variants |-> vs], mode |-> m, table |-> tb] :
        vs \in (SUBSET GenVariants) \ {{}}, m \in Modes, tb \in GenTables }

Invocations == ShippedInvocations \cup GenInvocations

(***************************************************************************)
(* The @no-display arm of the macro: the items it generates for a table.   *)
(* A match is kept as the sequence of its arms, in the order written.      *)
(* Array indices are 1-based here and 0-based in the source.               *)
(***************************************************************************)
NoDisplayArm_reversed_strings(tb) ==
    [ display              |-> FALSE,
      NUM_VARIANTS         |-> Len([i \in 1..Len(tb) |-> tb[i].variant]),
      ENUM_VARIANTS        |-> [i \in 1..Len(tb) |-> tb[i].variant],
      ENUM_VARIANT_STRINGS |-> [i \in 1..Len(tb) |-> tb[Len(tb) + 1 - i].strval],
      as_static_str        |-> [i \in 1..Len(tb) |-> [pat |-> tb[i].variant, val |-> tb[i].strval]],
      from_str             |-> [i \in 1..Len(tb) |-> [pat |-> tb[i].strval, val |-> tb[i].variant]] ]

NoDisplayArm(tb) ==
    [ display              |-> FALSE,
      NUM_VARIANTS         |-> Len([i \in 1..Len(tb) |-> tb[i].variant]),
      ENUM_VARIANTS        |-> [i \in 1..Len(tb) |-> tb[i].variant],
      ENUM_VARIANT_STRINGS |-> [i \in 1..Len(tb) |-> tb[i].strval],
      as_static_str        |-> [i \in 1..Len(tb) |-> [pat |-> tb[i].variant, val |-> tb[i].strval]],
      from_str             |-> [i \in 1..Len(tb) |-> [pat |-> tb[i].strval, val |-> tb[i].variant]] ]

(***************************************************************************)
(* The with-display arm: the items of the @no-display arm for the same     *)
(* entries, and an impl of Display.                                        *)
(***************************************************************************)
WithDisplayArm(tb) == [NoDisplayArm(tb) EXCEPT !.display = TRUE]

stringable_enum(m, tb) ==
    IF m = "no-display" THEN NoDisplayArm(tb) ELSE WithDisplayArm(tb)

NoItems == NoDisplayArm(<< >>)

(***************************************************************************)
(* What the compiler requires of the generated items: every Self::$variant *)
(* names a variant of the enumeration, and the match of as_static_str      *)
(* covers every variant. An arm that repeats an earlier pattern is         *)
(* unreachable, which is a warning and not an error.                       *)
(***************************************************************************)
Resolves(d, g) == \A i \in 1..Len(g.as_static_str) : g.as_static_str[i].pat \in d.variants

Exhaustive(d, g) ==
    \A v \in d.variants : \E i \in 1..Len(g.as_static_str) : g.as_static_str[i].pat = v

Compiles_without_exhaustiveness(d, g) == Resolves(d, g)

Compiles(d, g) == Resolves(d, g) /\ Exhaustive(d, g)

(***************************************************************************)
(* The strings handed to from_str: every token of the table, each token    *)
(* with the case of its first letter changed, with a space before or after *)
(* it, and without its last character, and three fixed strings.            *)
(***************************************************************************)
LowerCase == <<"a","b","c","d","e","f","g","h","i","j","k","l","m",
               "n","o","p","q","r","s","t","u","v","w","x","y","z">>

UpperCase == <<"A","B","C","D","E","F","G","H","I","J","K","L","M",
               "N","O","P","Q","R","S","T","U","V","W","X","Y","Z">>

SwapCase(c) ==
    IF \E i \in 1..Len(LowerCase) : LowerCase[i] = c
    THEN UpperCase[CHOOSE i \in 1..Len(LowerCase) : LowerCase[i] = c]
    ELSE IF \E i \in 1..Len(UpperCase) : UpperCase[i] = c
         THEN LowerCase[CHOOSE i \in 1..Len(UpperCase) : UpperCase[i] = c]
         ELSE c

SwapFirst(s) == IF s = << >> THEN s ELSE <<SwapCase(Head(s))>> \o Tail(s)

NotARealToken ==
    <<"_","_","n","o","t","_","a","_","r","e","a","l","_","t","o","k","e","n","_","_">>

Tokens(tb) == {tb[i].strval : i \in 1..Len(tb)}

StrInputs(tb) ==
    Tokens(tb)
    \cup {SwapFirst(s) : s \in Tokens(tb)}
    \cup {<<" ">> \o s : s \in Tokens(tb)}
    \cup {s \o <<" ">> : s \in Tokens(tb)}
    \cup {Take(s, Len(s) - 1) : s \in Tokens(tb)}
    \cup {NotARealToken, << >>, <<"b","a","z">>}

(***************************************************************************)
(* Outcomes of the generated operations.                                   *)
(***************************************************************************)
Ok(v) == [kind |-> "Ok", variant |-> v]

ErrUnit == [kind |-> "Err"]

Str(s) == [kind |-> "str", str |-> s]

FmtOk(out) == [kind |-> "FmtOk", out |-> out]

Bool(b) == [kind |-> "bool", b |-> b]

NoCall == [op |-> "none"]

NoRet == [kind |-> "none"]

(***************************************************************************)
(* match: the value of the first arm whose pattern equals the scrutinee.   *)
(***************************************************************************)
Hits(arms, x) == {i \in 1..Len(arms) : arms[i].pat = x}

FirstArm(arms, x) == arms[Min(Hits(arms, x))].val

as_static_str(g, v) == FirstArm(g.as_static_str, v)

(***************************************************************************)
(* Variants of from_str with a fault, used to test the properties below:   *)
(* one compares ignoring the case of the first letter, one trims spaces,   *)
(* one takes the last matching arm, one fails every parse once any thread  *)
(* holds a failed parse.                                                   *)
(***************************************************************************)
Max(S) == CHOOSE x \in S : \A y \in S : x >= y

HitsIgnoringCase(arms, x) ==
    {i \in 1..Len(arms) : arms[i].pat = x \/ arms[i].pat = SwapFirst(x)}

from_str_ignoring_case(g, s) ==
    IF HitsIgnoringCase(g.from_str, s) = {} THEN ErrUnit
    ELSE Ok(g.from_str[Min(HitsIgnoringCase(g.from_str, s))].val)

Trim(s) ==
    LET keep == {i \in 1..Len(s) : s[i] # " "}
    IN  IF keep = {} THEN << >> ELSE SubSeq(s, Min(keep), Max(keep))

from_str_trimmed(g, s) ==
    IF Hits(g.from_str, Trim(s)) = {} THEN ErrUnit ELSE Ok(FirstArm(g.from_str, Trim(s)))

from_str_last_arm(g, s) ==
    IF Hits(g.from_str, s) = {} THEN ErrUnit ELSE Ok(g.from_str[Max(Hits(g.from_str, s))].val)

from_str_poisoned(g, s) ==
    IF Hits(g.from_str, s) = {} \/ \E t \in threads : ret[t] = ErrUnit
    THEN ErrUnit ELSE Ok(FirstArm(g.from_str, s))

from_str(g, s) ==
    IF Hits(g.from_str, s) = {} THEN ErrUnit ELSE Ok(FirstArm(g.from_str, s))

(***************************************************************************)
(* Formatter::pad, which Display::fmt calls with the token: the string is  *)
(* cut to the precision, then filled with spaces to the width on the side  *)
(* the alignment names (to the right of the string when none is given).    *)
(* The formatter writes into a String, which accepts every write.          *)
(***************************************************************************)
None == [some |-> FALSE]

Some(n) == [some |-> TRUE, val |-> n]

Alignments == {"Unknown", "Left", "Right", "Center"}

Formatters ==
    [ width : {None, Some(MaxWidth)}, precision : {None, Some(MaxPrecision)},
      align : Alignments ]

NoFlags == [width |-> None, precision |-> None, align |-> "Unknown"]

pad(f, s) ==
    LET cut  == IF f.precision.some THEN Take(s, f.precision.val) ELSE s
        n    == IF f.width.some /\ Len(cut) < f.width.val
                THEN f.width.val - Len(cut) ELSE 0
        pre  == CASE f.align = "Right"  -> n
                  [] f.align = "Center" -> n \div 2
                  [] OTHER              -> 0
    IN  Repeat(" ", pre) \o cut \o Repeat(" ", n - pre)

fmt_variant_name(g, v, f) == FmtOk(pad(f, <<v>>))

fmt(g, v, f) == FmtOk(pad(f, as_static_str(g, v)))

(***************************************************************************)
(* Color::detect; term is what stream.is_terminal() returns.               *)
(***************************************************************************)
detect_auto_always(self, term) ==
    CASE self = "Always" -> TRUE
      [] self = "Auto"   -> TRUE
      [] self = "Never"  -> FALSE

detect(self, term) ==
    CASE self = "Always" -> TRUE
      [] self = "Auto"   -> term
      [] self = "Never"  -> FALSE

(***************************************************************************)
(* State. decl, mode and table are the macro invocation in the source; pc  *)
(* is "source" before the build, then "built" or "rejected"; gen holds the *)
(* generated items; call and ret hold, for each thread of the running      *)
(* program, its last call of a generated operation and what it returned;   *)
(* strs and fmts are the strings and formatters the threads call with.     *)
(***************************************************************************)
Start(inv, ths, ss, fs) ==
    /\ decl = inv.decl
    /\ mode = inv.mode
    /\ table = inv.table
    /\ pc = "source"
    /\ gen = NoItems
    /\ threads = ths
    /\ strs = ss
    /\ fmts = fs
    /\ call = [t \in ths |-> NoCall]
    /\ ret = [t \in ths |-> NoRet]

Init == \E inv \in Invocations : Start(inv, {1}, StrInputs(inv.table), Formatters)

(***************************************************************************)
(* The build: the macro is expanded and the result is compiled.            *)
(***************************************************************************)
Build ==
    /\ pc = "source"
    /\ gen' = stringable_enum(mode, table)
    /\ pc' = IF Compiles(decl, gen') THEN "built" ELSE "rejected"
    /\ UNCHANGED <<decl, mode, table, threads, strs, fmts, call, ret>>

(***************************************************************************)
(* The running program: a thread calls one generated operation.            *)
(***************************************************************************)
Returns(t, c, r) ==
    /\ call' = [call EXCEPT ![t] = c]
    /\ ret' = [ret EXCEPT ![t] = r]
    /\ UNCHANGED <<decl, mode, table, pc, gen, threads, strs, fmts>>

CallAsStaticStr(t) ==
    /\ pc = "built"
    /\ \E v \in decl.variants :
         Returns(t, [op |-> "as_static_str", self |-> v], Str(as_static_str(gen, v)))

CallFromStr(t) ==
    /\ pc = "built"
    /\ \E s \in strs :
         Returns(t, [op |-> "from_str", s |-> s], from_str(gen, s))

CallFmt(t) ==
    /\ pc = "built"
    /\ gen.display
    /\ \E v \in decl.variants, f \in fmts :
         Returns(t, [op |-> "fmt", self |-> v, f |-> f], fmt(gen, v, f))

ReadCatalogue(t) ==
    /\ pc = "built"
    /\ \E i \in 1..gen.NUM_VARIANTS :
         Returns(t, [op |-> "catalogue", i |-> i],
                 [kind |-> "entry", n |-> gen.NUM_VARIANTS,
                  variant |-> gen.ENUM_VARIANTS[i],
                  strval |-> gen.ENUM_VARIANT_STRINGS[i]])

CallDetect(t) ==
    /\ pc = "built"
    /\ decl = ColorEnum
    /\ \E v \in decl.variants, term \in BOOLEAN :
         Returns(t, [op |-> "detect", self |-> v, term |-> term], Bool(detect(v, term)))

Next ==
    \/ Build
    \/ \E t \in threads : CallAsStaticStr(t)
    \/ \E t \in threads : CallFromStr(t)
    \/ \E t \in threads : CallFmt(t)
    \/ \E t \in threads : ReadCatalogue(t)
    \/ \E t \in threads : CallDetect(t)

Spec == Init /\ [][Next]_vars

(***************************************************************************)
(* The shipped and doctest invocations, and one table in which two         *)
(* variants share a token, run by NumThreads threads that parse the tokens *)
(* and one unknown string and format without flags.                        *)
(***************************************************************************)
SharedTokenInvocation ==
    [decl |-> [name |-> "E", variants |-> GenVariants], mode |-> "with-display",
     table |-> << Entry("A", <<"x">>), Entry("B", <<"x">>) >>]

ConcInvocations == ShippedInvocations \cup {SharedTokenInvocation}

ConcInit ==
    \E inv \in ConcInvocations :
        Start(inv, 1..NumThreads, Tokens(inv.table) \cup {NotARealToken}, {NoFlags})

ConcSpec == ConcInit /\ [][Next]_vars

(***************************************************************************)
(* Conditions on a binding table, and readings of the generated catalogue. *)
(***************************************************************************)
TokensIdentifyVariant(tb) ==
    \A i, j \in 1..Len(tb) : tb[i].strval = tb[j].strval => tb[i].variant = tb[j].variant

EachVariantOnce(tb) ==
    \A i, j \in 1..Len(tb) : tb[i].variant = tb[j].variant => i = j

Omits(d, tb) == \E v \in d.variants : \A i \in 1..Len(tb) : tb[i].variant # v

NamesUndeclared(d, tb) == \E i \in 1..Len(tb) : tb[i].variant \notin d.variants

Occurrences(g, v) ==
    Cardinality({i \in 1..Len(g.ENUM_VARIANTS) : g.ENUM_VARIANTS[i] = v})

Built == pc = "built"

RoundTrip == \A v \in decl.variants : from_str(gen, as_static_str(gen, v)) = Ok(v)

(***************************************************************************)
(* C1 as stated: in every built program, for every variant v of the        *)
(* enumeration, from_str(v.as_static_str()) is Ok(v).                      *)
(***************************************************************************)
C1_RoundTripEveryTable == Built => RoundTrip

(***************************************************************************)
(* C1 amended: the round trip holds for every built program whose binding  *)
(* table gives no token to two different variants, and so for Color and    *)
(* LogLevelSerdable.                                                       *)
(***************************************************************************)
C1_RoundTrip ==
    /\ Built /\ TokensIdentifyVariant(table) => RoundTrip
    /\ Built /\ decl \in {ColorEnum, LogLevelSerdableEnum} => RoundTrip

C1_Witness ==
    /\ Built /\ TokensIdentifyVariant(table) /\ Len(table) >= 2
    /\ \E t \in threads, v \in decl.variants :
         /\ call[t] = [op |-> "from_str", s |-> as_static_str(gen, v)]
         /\ ret[t] = Ok(v)
         /\ v # table[1].variant

Aligned ==
    \A i \in 1..gen.NUM_VARIANTS :
        as_static_str(gen, gen.ENUM_VARIANTS[i]) = gen.ENUM_VARIANT_STRINGS[i]

TableOrder ==
    /\ Len(gen.ENUM_VARIANTS) = gen.NUM_VARIANTS
    /\ Len(gen.ENUM_VARIANT_STRINGS) = gen.NUM_VARIANTS
    /\ gen.NUM_VARIANTS = Len(table)
    /\ \A i \in 1..Len(table) :
         /\ gen.ENUM_VARIANTS[i] = table[i].variant
         /\ gen.ENUM_VARIANT_STRINGS[i] = table[i].strval

ParseHit ==
    \A i \in 1..gen.NUM_VARIANTS, s \in strs :
        s = gen.ENUM_VARIANT_STRINGS[i] => from_str(gen, s) = Ok(gen.ENUM_VARIANTS[i])

(***************************************************************************)
(* C4 as stated: in every built program, for every index i and string s,   *)
(* if s is ENUM_VARIANT_STRINGS[i] then from_str(s) is                     *)
(* Ok(ENUM_VARIANTS[i]).                                                   *)
(***************************************************************************)
C4_ParseHitEveryTable == Built => ParseHit

(***************************************************************************)
(* C4 amended: the same, for every built program whose binding table gives *)
(* no token to two different variants.                                     *)
(***************************************************************************)
C4_ParseHit == Built /\ TokensIdentifyVariant(table) => ParseHit

C4_Witness ==
    /\ Built /\ TokensIdentifyVariant(table)
    /\ \E t \in threads, i \in 2..gen.NUM_VARIANTS :
         /\ call[t] = [op |-> "from_str", s |-> gen.ENUM_VARIANT_STRINGS[i]]
         /\ ret[t] = Ok(gen.ENUM_VARIANTS[i])
         /\ gen.ENUM_VARIANTS[i] # gen.ENUM_VARIANTS[1]

SharedItems == {"NUM_VARIANTS", "ENUM_VARIANTS", "ENUM_VARIANT_STRINGS", "as_static_str", "from_str"}

C6_DisplayDelegation ==
    Built =>
      /\ gen.display = (mode = "with-display")
      /\ gen.display =>
           \A v \in decl.variants : fmt(gen, v, NoFlags) = FmtOk(as_static_str(gen, v))
      /\ \A t \in threads :
           call[t].op = "fmt" =>
             /\ gen.display
             /\ call[t].f = NoFlags => ret[t] = FmtOk(as_static_str(gen, call[t].self))
      /\ \A k \in SharedItems :
           /\ gen[k] = NoDisplayArm(table)[k]
           /\ gen[k] = WithDisplayArm(table)[k]

C6_Witness ==
    /\ Built /\ mode = "with-display"
    /\ \E t \in threads :
         /\ call[t].op = "fmt"
         /\ call[t].f = NoFlags
         /\ ret[t] = FmtOk(as_static_str(gen, call[t].self))
         /\ Len(ret[t].out) > 1

C8_FirstEntryWins ==
    Built =>
      /\ \A i \in 1..Len(table) :
           (\A j \in 1..(i - 1) : table[j].strval # table[i].strval) =>
               from_str(gen, table[i].strval) = Ok(table[i].variant)
      /\ \A t \in threads, i \in 1..Len(table) :
           /\ call[t] = [op |-> "from_str", s |-> table[i].strval]
           /\ \A j \in 1..(i - 1) : table[j].strval # table[i].strval
           => ret[t] = Ok(table[i].variant)

C8_Witness ==
    /\ Built
    /\ \E t \in threads, i, j \in 1..Len(table) :
         /\ i < j
         /\ table[i].strval = table[j].strval
         /\ table[i].variant # table[j].variant
         /\ \A k \in 1..(i - 1) : table[k].strval # table[i].strval
         /\ call[t] = [op |-> "from_str", s |-> table[j].strval]
         /\ ret[t] = Ok(table[i].variant)

(***************************************************************************)
(* C9: with several threads calling the generated operations in any        *)
(* order, two threads whose last calls are equal hold equal results, what  *)
(* a thread holds is what its call returns from the catalogue, and no step *)
(* of the running program changes the generated items.                     *)
(***************************************************************************)
SameCallSameResult ==
    /\ \A t1, t2 \in threads : call[t1] = call[t2] => ret[t1] = ret[t2]
    /\ \A t \in threads :
         /\ call[t].op = "from_str" => ret[t] = from_str(gen, call[t].s)
         /\ call[t].op = "as_static_str" => ret[t] = Str(as_static_str(gen, call[t].self))
         /\ call[t].op = "fmt" => ret[t] = fmt(gen, call[t].self, call[t].f)

C9_Stateless ==
    /\ [](Built => SameCallSameResult)
    /\ [][Built => gen' = gen /\ pc' = pc /\ table' = table /\ decl' = decl]_vars

C9_Witness ==
    /\ Built
    /\ \E t1, t2 \in threads :
         /\ t1 # t2
         /\ call[t1].op = "from_str"
         /\ call[t2] = call[t1]
         /\ ret[t1].kind = "Ok"
         /\ ret[t2] = ret[t1]

(***************************************************************************)
(* C10: in every built program whose binding table lists each variant      *)
(* once, if from_str(s) is Ok(v) then v.as_static_str() is s, also when    *)
(* several variants share a token.                                         *)
(***************************************************************************)
C10_ReverseRoundTrip ==
    Built /\ EachVariantOnce(table) =>
      /\ \A s \in strs :
           from_str(gen, s).kind = "Ok" => as_static_str(gen, from_str(gen, s).variant) = s
      /\ \A t \in threads :
           call[t].op = "from_str" /\ ret[t].kind = "Ok" =>
               as_static_str(gen, ret[t].variant) = call[t].s

C10_Witness ==
    /\ Built /\ EachVariantOnce(table) /\ ~TokensIdentifyVariant(table)
    /\ \E t \in threads :
         /\ call[t].op = "from_str"
         /\ ret[t].kind = "Ok"
         /\ as_static_str(gen, ret[t].variant) = call[t].s
====
